---- MODULE Spec2Model ----
(***************************************************************************)
(* Structural integrity engine (js/structureLogic.js), the shared state    *)
(* aggregate (js/state.js), the debounced autosave timer (js/autosave.js)  *)
(* and the divider resolver (segmentMath.js) of the book-structure editor. *)
(***************************************************************************)
EXTENDS Integers, Sequences, FiniteSets, TLC

(* ------------------------------ bounds -------------------------------- *)

\* Number of paragraphs of the loaded book (state.paragraphs.length).
NumPar == 2

\* Cap on each id counter, so that the reachable state space is finite.
MaxId == 2

\* Resolver inputs: at most MaxDividers dividers in a list, each anchored to
\* at most MaxAnchors paragraph indexes.
MaxDividers == 2
MaxAnchors == 2

(* ----------------------------- constants ------------------------------ *)

\* JavaScript null, as stored in sectionId / divisionId.  Ids start at 1
\* (++counter from 0), so 0 is never an id and is falsy like null.
Null == 0

ParIdx == 0 .. (NumPar - 1)
Ids == 1 .. MaxId

VARIABLES
  state,          \* js/state.js: divisions, sections, segments, ids
  autosaveTimer,  \* js/autosave.js: TRUE while a timeout is pending
  lastCall,       \* the last public call: its name, argument and pre-state
  assigned,       \* history: ids ever assigned, per divider type
  resolver,       \* one run of the divider resolver: input, sorted, spans
  session,        \* a book page with its timers, and the browser's storage
  preview         \* one run of a routine of the preview / chart pages

vars == <<state, autosaveTimer, lastCall, assigned, resolver, session, preview>>

\* The variables of the structure editor.
editorVars == <<state, autosaveTimer, lastCall, assigned>>

\* The resolver is not running.
ResolverIdle == [pc |-> "idle"]

\* No book page with storage is being followed.
SessionIdle == [pc |-> "idle"]

\* No preview routine is running.
PreviewIdle == [pc |-> "idle"]

(* ------------------------- array helpers ------------------------------ *)

\* Array.prototype.includes
Includes(arr, x) == \E i \in DOMAIN arr : arr[i] = x

\* Index of the first divider of list whose paragraphIndexes includes p
\* (Array.prototype.find / some); 0 when there is none.
FindAt(list, p) ==
  IF \E i \in DOMAIN list : Includes(list[i].paragraphIndexes, p)
  THEN CHOOSE i \in DOMAIN list :
         /\ Includes(list[i].paragraphIndexes, p)
         /\ \A j \in 1 .. (i - 1) : ~Includes(list[j].paragraphIndexes, p)
  ELSE 0

\* list.some(d => d.id === id)
HasId(list, id) == \E i \in DOMAIN list : list[i].id = id

\* list.filter(d => d.id !== id)
WithoutId(list, id) ==
  LET Keep(d) == d.id # id IN SelectSeq(list, Keep)

(* ------------------------------ autosave ------------------------------ *)

\* Mutant: the call is not noted.
scheduleAutosave_Unnoted(w) == [w EXCEPT !.autosaveTimer = TRUE]

\* clearTimeout(autosaveTimer); autosaveTimer = setTimeout(...).  Every call
\* is noted in w.scheduled with the aggregate as it is when the call is made.
scheduleAutosave(w) ==
  [w EXCEPT !.autosaveTimer = TRUE, !.scheduled = Append(@, w.state)]

(* ------------------------------ creation ------------------------------ *)

\* Mutant: the duplicate guard of addSegment is missing.
segmentClaimed_Never(st, parIndex) == FALSE

\* state.segments.some(s => s.paragraphIndexes.includes(parIndex))
segmentClaimed(st, parIndex) == FindAt(st.segments, parIndex) # 0

\* state.sections.some(s => s.paragraphIndexes.includes(parIndex))
sectionClaimed(st, parIndex) == FindAt(st.sections, parIndex) # 0

\* Mutant: the duplicate guard of addDivision is missing.
divisionClaimed_Never(st, parIndex) == FALSE

\* state.divisions.some(d => d.paragraphIndexes.includes(parIndex))
divisionClaimed(st, parIndex) == FindAt(st.divisions, parIndex) # 0

\* Mutant: the id is taken from the list length instead of the counter.
newSegmentId_FromLength(st) == Len(st.segments) + 1

\* ++state.ids.segment
newSegmentId(st) == st.ids.segment + 1

\* ++state.ids.section
newSectionId(st) == st.ids.section + 1

\* ++state.ids.division
newDivisionId(st) == st.ids.division + 1

RECURSIVE addSegment(_, _, _)
addSegment(w, parIndex, fromRecursion) ==
  IF segmentClaimed(w.state, parIndex) THEN w
  ELSE
    LET id == newSegmentId(w.state)
        w1 == [w EXCEPT
                 !.state.ids.segment = id,
                 !.state.segments = Append(@,
                    [id |-> id, paragraphIndexes |-> <<parIndex>>,
                     sectionId |-> Null])]
        w2 == IF ~fromRecursion /\ parIndex # 0
              THEN addSegment(w1, 0, TRUE) ELSE w1
    IN IF ~fromRecursion THEN scheduleAutosave(w2) ELSE w2

RECURSIVE addSection(_, _, _, _, _)
addSection(w, parIndex, fromDivision, divisionId, fromRecursion) ==
  IF sectionClaimed(w.state, parIndex) THEN w
  ELSE
    LET sectionId == newSectionId(w.state)
        w1 == [w EXCEPT
                 !.state.ids.section = sectionId,
                 !.state.sections = Append(@,
                    [id |-> sectionId, paragraphIndexes |-> <<parIndex>>,
                     divisionId |-> divisionId])]
        k  == FindAt(w1.state.segments, parIndex)
        w2 == IF k = 0
              THEN [w1 EXCEPT
                      !.state.ids.segment = newSegmentId(w1.state),
                      !.state.segments = Append(@,
                         [id |-> newSegmentId(w1.state),
                          paragraphIndexes |-> <<parIndex>>,
                          sectionId |-> sectionId])]
              ELSE IF w1.state.segments[k].sectionId = Null
                   THEN [w1 EXCEPT !.state.segments[k].sectionId = sectionId]
                   ELSE w1
        w3 == IF ~fromRecursion /\ parIndex # 0
              THEN addSection(w2, 0, fromDivision, divisionId, TRUE) ELSE w2
    IN IF ~fromDivision /\ ~fromRecursion THEN scheduleAutosave(w3) ELSE w3

\* Mutant: addDivision without its paragraph-0 cascade.
addDivision_NoCascade(w, parIndex, fromRecursion) ==
  IF divisionClaimed(w.state, parIndex) THEN w
  ELSE
    LET divisionId == newDivisionId(w.state)
        w1 == [w EXCEPT
                 !.state.ids.division = divisionId,
                 !.state.divisions = Append(@,
                    [id |-> divisionId, paragraphIndexes |-> <<parIndex>>])]
        w2 == addSection(w1, parIndex, TRUE, divisionId, FALSE)
    IN IF ~fromRecursion THEN scheduleAutosave(w2) ELSE w2

\* Mutant: addDivision empties the segment list before it builds the walls.
addDivision_ResetSegments(w, parIndex, fromRecursion) ==
  IF divisionClaimed(w.state, parIndex) THEN w
  ELSE
    LET divisionId == newDivisionId(w.state)
        w1 == [w EXCEPT
                 !.state.ids.division = divisionId,
                 !.state.segments = <<>>,
                 !.state.divisions = Append(@,
                    [id |-> divisionId, paragraphIndexes |-> <<parIndex>>])]
        w2 == addSection(w1, parIndex, TRUE, divisionId, FALSE)
    IN IF ~fromRecursion THEN scheduleAutosave(w2) ELSE w2

RECURSIVE addDivision(_, _, _)
addDivision(w, parIndex, fromRecursion) ==
  IF divisionClaimed(w.state, parIndex) THEN w
  ELSE
    LET divisionId == newDivisionId(w.state)
        w1 == [w EXCEPT
                 !.state.ids.division = divisionId,
                 !.state.divisions = Append(@,
                    [id |-> divisionId, paragraphIndexes |-> <<parIndex>>])]
        w2 == addSection(w1, parIndex, TRUE, divisionId, FALSE)
        w3 == IF ~fromRecursion /\ parIndex # 0
              THEN addDivision(w2, 0, TRUE) ELSE w2
    IN IF ~fromRecursion THEN scheduleAutosave(w3) ELSE w3

(* --------------------------- cleanup helpers -------------------------- *)

sectionHasFoundation(st, section) ==
  \E i \in DOMAIN st.segments :
    \/ st.segments[i].sectionId = section.id
    \/ \E j \in DOMAIN st.segments[i].paragraphIndexes :
         Includes(section.paragraphIndexes, st.segments[i].paragraphIndexes[j])

divisionHasWalls(st, division) ==
  \E i \in DOMAIN st.sections :
    \/ st.sections[i].divisionId = division.id
    \/ \E j \in DOMAIN st.sections[i].paragraphIndexes :
         Includes(division.paragraphIndexes, st.sections[i].paragraphIndexes[j])

cleanupSections(w) ==
  LET Keep(section) == sectionHasFoundation(w.state, section)
  IN [w EXCEPT !.state.sections = SelectSeq(@, Keep)]

cleanupDivisions(w) ==
  LET Keep(division) == divisionHasWalls(w.state, division)
  IN [w EXCEPT !.state.divisions = SelectSeq(@, Keep)]

(* ------------------------------ deletion ------------------------------ *)

\* Mutant: deleteSegment cleans up the sections but not the divisions.
deleteSegment_NoDivisionCleanup(w, id) ==
  IF ~HasId(w.state.segments, id) THEN w
  ELSE
    LET w1 == [w EXCEPT !.state.segments = WithoutId(@, id)]
    IN scheduleAutosave(cleanupSections(w1))

deleteSegment(w, id) ==
  IF ~HasId(w.state.segments, id) THEN w
  ELSE
    LET w1 == [w EXCEPT !.state.segments = WithoutId(@, id)]
    IN scheduleAutosave(cleanupDivisions(cleanupSections(w1)))

\* Mutant: deleteSection without the cleanup of the divisions.
deleteSection_NoCleanup(w, id) ==
  IF ~HasId(w.state.sections, id) THEN w
  ELSE
    LET w1 == [w EXCEPT !.state.sections = WithoutId(@, id)]
    IN scheduleAutosave(w1)

deleteSection(w, id) ==
  IF ~HasId(w.state.sections, id) THEN w
  ELSE
    LET w1 == [w EXCEPT !.state.sections = WithoutId(@, id)]
    IN scheduleAutosave(cleanupDivisions(w1))

\* Mutant: deleteDivision also removes the sections linked to the division.
deleteDivision_Cascade(w, id) ==
  LET Keep(section) == section.divisionId # id
  IN scheduleAutosave([w EXCEPT !.state.divisions = WithoutId(@, id),
                                !.state.sections = SelectSeq(@, Keep)])

deleteDivision(w, id) ==
  scheduleAutosave([w EXCEPT !.state.divisions = WithoutId(@, id)])

(* -------------------------- divider resolver -------------------------- *)

\* JavaScript Infinity (Math.min of no arguments): above every paragraph
\* index, and Infinity - 1 = Infinity.
Infinity == NumPar + NumPar + 1

Pred(x) == IF x = Infinity THEN Infinity ELSE x - 1

\* Math.min(...arr)
MathMin(arr) ==
  IF arr = <<>> THEN Infinity
  ELSE CHOOSE m \in {arr[i] : i \in DOMAIN arr} :
         \A i \in DOMAIN arr : m <= arr[i]

computeSegStart(seg) == MathMin(seg.paragraphIndexes)

\* sortedSegments.find(s => computeSegStart(s) > start): its index, 0 if none
FirstAfter(sortedSegments, start) ==
  IF \E i \in DOMAIN sortedSegments : computeSegStart(sortedSegments[i]) > start
  THEN CHOOSE i \in DOMAIN sortedSegments :
         /\ computeSegStart(sortedSegments[i]) > start
         /\ \A j \in 1 .. (i - 1) : ~(computeSegStart(sortedSegments[j]) > start)
  ELSE 0

\* Mutant: the next divider is searched with >= instead of >.
computeSegEnd_NotStrict(seg, sortedSegments, totalParagraphs) ==
  LET start == computeSegStart(seg)
      later == {i \in DOMAIN sortedSegments :
                  computeSegStart(sortedSegments[i]) >= start}
  IN IF later # {}
     THEN Pred(computeSegStart(sortedSegments[
            CHOOSE i \in later : \A j \in later : i <= j]))
     ELSE totalParagraphs - 1

computeSegEnd(seg, sortedSegments, totalParagraphs) ==
  LET start == computeSegStart(seg)
      next  == FirstAfter(sortedSegments, start)
  IN IF next # 0 THEN Pred(computeSegStart(sortedSegments[next]))
     ELSE totalParagraphs - 1

\* previewPage.js computeSegStart: Math.min(...seg.paragraphIndexes)
chartComputeSegStart(seg) == MathMin(seg.paragraphIndexes)

\* segmentsSorted.findIndex(s => computeSegStart(s) === segStart), counted
\* from 1; 0 when there is none (findIndex returns -1).
FindIndexOfStart(segmentsSorted, segStart) ==
  IF \E i \in DOMAIN segmentsSorted :
       chartComputeSegStart(segmentsSorted[i]) = segStart
  THEN CHOOSE i \in DOMAIN segmentsSorted :
         /\ chartComputeSegStart(segmentsSorted[i]) = segStart
         /\ \A j \in 1 .. (i - 1) :
              chartComputeSegStart(segmentsSorted[j]) # segStart
  ELSE 0

\* Mutant: the end is taken from the found element, not from its successor.
chartComputeSegEnd_Self(seg, segmentsSorted, totalParagraphs) ==
  LET segStart == chartComputeSegStart(seg)
      idx == FindIndexOfStart(segmentsSorted, segStart)
  IN IF idx < Len(segmentsSorted)
     THEN Pred(chartComputeSegStart(segmentsSorted[idx]))
     ELSE totalParagraphs - 1

\* previewPage.js computeSegEnd, used by the chart editor: the start of the
\* element that follows the first element with the same start, minus 1.
chartComputeSegEnd(seg, segmentsSorted, totalParagraphs) ==
  LET segStart == chartComputeSegStart(seg)
      idx == FindIndexOfStart(segmentsSorted, segStart)
  IN IF idx < Len(segmentsSorted)
     THEN Pred(chartComputeSegStart(segmentsSorted[idx + 1]))
     ELSE totalParagraphs - 1

\* [...list].sort((a, b) => computeSegStart(a) - computeSegStart(b)):
\* Array.prototype.sort is stable, equal starts keep their order.
RECURSIVE sortByStart(_)
sortByStart(list) ==
  IF list = <<>> THEN <<>>
  ELSE
    LET n     == Len(list)
        last  == list[n]
        front == sortByStart(SubSeq(list, 1, n - 1))
        k     == Cardinality({i \in DOMAIN front :
                    computeSegStart(front[i]) <= computeSegStart(last)})
    IN SubSeq(front, 1, k) \o <<last>> \o SubSeq(front, k + 1, Len(front))

(* ------------------- grouping of the overview table ------------------- *)

\* Object.fromEntries(list.map(d => [d.id, d]))[id]: the index of the last
\* divider with that id (later entries overwrite), 0 when there is none.
ById(list, id) ==
  LET hits == {i \in DOMAIN list : list[i].id = id}
  IN IF hits = {} THEN 0 ELSE CHOOSE i \in hits : \A j \in hits : j <= i

\* sec = sectionsById[seg.sectionId]: the section's id, Null when undefined
linkedSection(st, seg) ==
  LET k == ById(st.sections, seg.sectionId)
  IN IF k = 0 THEN Null ELSE st.sections[k].id

\* div = sec ? divisionsById[sec.divisionId] : null
linkedDivision(st, seg) ==
  LET k == ById(st.sections, seg.sectionId)
  IN IF k = 0 THEN Null
     ELSE LET j == ById(st.divisions, st.sections[k].divisionId)
          IN IF j = 0 THEN Null ELSE st.divisions[j].id

\* for (const d of sorted) { if (start(d) <= segStart) result = d; else break; }
\* returns the id of result, Null when result is null
LastNotAfter(sorted, segStart) ==
  LET k == Cardinality({i \in DOMAIN sorted :
             \A j \in 1 .. i : MathMin(sorted[j].paragraphIndexes) <= segStart})
  IN IF k = 0 THEN Null ELSE sorted[k].id

findSectionForSegment(st, segStart) ==
  LastNotAfter(sortByStart(st.sections), segStart)

findDivisionForSegment(st, segStart) ==
  LastNotAfter(sortByStart(st.divisions), segStart)

(* ---------------------------- the machine ----------------------------- *)

World ==
  [state |-> state, autosaveTimer |-> autosaveTimer, scheduled |-> <<>>]

IdsOf(list) == {list[i].id : i \in DOMAIN list}

\* Number of dividers of all three types.
Count(st) == Len(st.segments) + Len(st.sections) + Len(st.divisions)

\* Pre-state of a creation call: is the requested index already claimed by a
\* divider of the same type?
PreAdd(list, p) == IF FindAt(list, p) # 0 THEN "claimed" ELSE "free"

\* Pre-state of a deletion call: does a divider of that type have the id?
PreDelete(list, id) == IF HasId(list, id) THEN "present" ELSE "absent"

\* One public call returned in world w.  lastCall observes the call: its
\* name, its argument (a paragraph index, or the id of the divider deleted),
\* the pre-state class and the number of dividers before the call.
Returns(w, op, arg, pre) ==
  /\ w.state.ids.segment <= MaxId
  /\ w.state.ids.section <= MaxId
  /\ w.state.ids.division <= MaxId
  /\ state' = w.state
  /\ autosaveTimer' = w.autosaveTimer
  /\ lastCall' = [op |-> op, arg |-> IF pre = "absent" THEN Null ELSE arg,
                  pre |-> pre, n |-> Count(state)]
  /\ assigned' = [segment  |-> assigned.segment \cup IdsOf(w.state.segments),
                  section  |-> assigned.section \cup IdsOf(w.state.sections),
                  division |-> assigned.division \cup IdsOf(w.state.divisions)]
  /\ UNCHANGED <<resolver, session, preview>>

EmptyState ==
  [divisions |-> <<>>, sections |-> <<>>, segments |-> <<>>,
   ids |-> [division |-> 0, section |-> 0, segment |-> 0]]

Init ==
  /\ state = EmptyState
  /\ autosaveTimer = FALSE
  /\ lastCall = [op |-> "none", arg |-> Null, pre |-> "none", n |-> 0]
  /\ assigned = [segment |-> {}, section |-> {}, division |-> {}]
  /\ resolver = ResolverIdle
  /\ session = SessionIdle
  /\ preview = PreviewIdle

CallAddSegment ==
  \E p \in ParIdx :
    \E w \in {addSegment(World, p, FALSE)} :
      Returns(w, "addSegment", p, PreAdd(state.segments, p))

CallAddSection ==
  \E p \in ParIdx :
    \E w \in {addSection(World, p, FALSE, Null, FALSE)} :
      Returns(w, "addSection", p, PreAdd(state.sections, p))

CallAddDivision ==
  \E p \in ParIdx :
    \E w \in {addDivision(World, p, FALSE)} :
      Returns(w, "addDivision", p, PreAdd(state.divisions, p))

CallDeleteSegment ==
  \E id \in Ids :
    \E w \in {deleteSegment(World, id)} :
      Returns(w, "deleteSegment", id, PreDelete(state.segments, id))

CallDeleteSection ==
  \E id \in Ids :
    \E w \in {deleteSection(World, id)} :
      Returns(w, "deleteSection", id, PreDelete(state.sections, id))

CallDeleteDivision ==
  \E id \in Ids :
    \E w \in {deleteDivision(World, id)} :
      Returns(w, "deleteDivision", id, PreDelete(state.divisions, id))

Next ==
  \/ CallAddSegment
  \/ CallAddSection
  \/ CallAddDivision
  \/ CallDeleteSegment
  \/ CallDeleteSection
  \/ CallDeleteDivision

\* The six structural operations, called in any order on the empty aggregate.
\* The timeout callback of autosave.js only reads the aggregate; it is not a
\* step of this specification, so autosaveTimer here records that a call has
\* scheduled an autosave.
Spec == Init /\ [][Next]_vars

(* ----------------------- the resolver, run alone ---------------------- *)

\* Anchor arrays of a divider, in any order, duplicates and empty included.
AnchorArrays == UNION {[1 .. n -> ParIdx] : n \in 0 .. MaxAnchors}

DividerLists ==
  UNION {[1 .. n -> [paragraphIndexes : AnchorArrays]] : n \in 0 .. MaxDividers}

InitResolver ==
  /\ state = EmptyState
  /\ autosaveTimer = FALSE
  /\ lastCall = [op |-> "none", arg |-> Null, pre |-> "none", n |-> 0]
  /\ assigned = [segment |-> {}, section |-> {}, division |-> {}]
  /\ session = SessionIdle
  /\ preview = PreviewIdle
  /\ \E ds \in DividerLists : \E t \in 0 .. NumPar :
       resolver = [pc |-> "input", dividers |-> ds, totalParagraphs |-> t,
                   sorted |-> <<>>, spans |-> <<>>]

\* const segmentsSorted = [...state.segments].sort(...)
ResolverSort ==
  /\ resolver.pc = "input"
  /\ resolver' = [resolver EXCEPT !.pc = "sorted",
                                  !.sorted = sortByStart(resolver.dividers)]
  /\ UNCHANGED <<editorVars, session, preview>>

\* segmentsSorted.map(seg => { segStart = computeSegStart(seg); segEnd =
\*   computeSegEnd(seg, segmentsSorted, totalParagraphs); ... })
ResolverSpans ==
  /\ resolver.pc = "sorted"
  /\ resolver' = [resolver EXCEPT
       !.pc = "done",
       !.spans = [i \in DOMAIN resolver.sorted |->
                    [start |-> computeSegStart(resolver.sorted[i]),
                     end   |-> computeSegEnd(resolver.sorted[i], resolver.sorted,
                                             resolver.totalParagraphs),
                     chartEnd |-> chartComputeSegEnd(resolver.sorted[i],
                                                     resolver.sorted,
                                                     resolver.totalParagraphs)]]]
  /\ UNCHANGED <<editorVars, session, preview>>

NextResolver == ResolverSort \/ ResolverSpans

SpecResolver == InitResolver /\ [][NextResolver]_vars

(* ----------------------------- range labels --------------------------- *)

\* Every variable of the structure editor at its initial value: the
\* specifications of the other routines leave the editor alone.
EditorAtRest ==
  /\ state = EmptyState
  /\ autosaveTimer = FALSE
  /\ lastCall = [op |-> "none", arg |-> Null, pre |-> "none", n |-> 0]
  /\ assigned = [segment |-> {}, section |-> {}, division |-> {}]

\* A string is a sequence of characters; "-" stands for the en-dash that
\* separates the two verses of a range.
Dash == "-"

\* paragraph.range values: empty, single verses, ranges, and malformed ones.
RangeStrings ==
  { <<>>, <<"1">>, <<"2">>, <<"1", Dash, "2">>, <<"2", Dash, "1">>,
    <<Dash>>, <<"1", Dash>>, <<Dash, "2">>, <<"1", Dash, "2", Dash, "1">> }

\* String.prototype.includes("–")
IncludesDash(str) == \E i \in DOMAIN str : str[i] = Dash

\* Position of the first en-dash of str; Len(str) + 1 when there is none.
FirstDash(str) ==
  IF IncludesDash(str)
  THEN CHOOSE i \in DOMAIN str :
         str[i] = Dash /\ \A j \in 1 .. (i - 1) : str[j] # Dash
  ELSE Len(str) + 1

\* str.split("–")[0]: everything before the first en-dash.
SplitFirst(str) == SubSeq(str, 1, FirstDash(str) - 1)

\* str.split("–")[1], for a str that includes an en-dash: the piece between
\* the first en-dash and the second one (or the end).
SplitSecond(str) == SplitFirst(SubSeq(str, FirstDash(str) + 1, Len(str)))

\* paragraphs[idx] is an object (idx addresses an element of the array).
\* Negative indexes, indexes past the end and Infinity read undefined.
Defined(paragraphs, idx) == (idx + 1) \in DOMAIN paragraphs

\* What reading .range of undefined raises.
TypeError == <<"TypeError">>

\* paragraphs[idx].range
RangeOf(paragraphs, idx) ==
  IF Defined(paragraphs, idx) THEN paragraphs[idx + 1].range ELSE TypeError

\* Mutant: only the start index is guarded.
humanRangeFromIdx_StartGuardOnly(startIdx, endIdx, paragraphs) ==
  IF ~Defined(paragraphs, startIdx) THEN <<>>
  ELSE LET start == SplitFirst(RangeOf(paragraphs, startIdx))
           endRaw == RangeOf(paragraphs, endIdx)
           end == IF IncludesDash(endRaw) THEN SplitSecond(endRaw) ELSE endRaw
       IN start \o <<Dash>> \o end

\* helpers/textUtils.js humanRangeFromIdx, used by the HTML and copy exports.
humanRangeFromIdx(startIdx, endIdx, paragraphs) ==
  IF ~Defined(paragraphs, startIdx) \/ ~Defined(paragraphs, endIdx) THEN <<>>
  ELSE LET start == SplitFirst(RangeOf(paragraphs, startIdx))
           endRaw == RangeOf(paragraphs, endIdx)
           end == IF IncludesDash(endRaw) THEN SplitSecond(endRaw) ELSE endRaw
       IN start \o <<Dash>> \o end

\* previewPage.js humanRangeFromIdx, used by the chart editor.
chartHumanRangeFromIdx(startIdx, endIdx, paragraphs) ==
  IF ~Defined(paragraphs, startIdx) \/ ~Defined(paragraphs, endIdx) THEN <<>>
  ELSE LET startRange == RangeOf(paragraphs, startIdx)
           endRange == RangeOf(paragraphs, endIdx)
       IN IF startRange = endRange THEN startRange
          ELSE startRange \o <<Dash>> \o endRange

\* wordExport.js humanRangeFromIdx, used by the Word export.  The empty
\* string is falsy: an empty second piece falls back to the raw end range,
\* and the en-dash joins the two sides only when both are non-empty.
wordHumanRangeFromIdx(startIdx, endIdx, paragraphs) ==
  IF startIdx < 0 \/ startIdx >= Len(paragraphs) THEN <<>>
  ELSE IF endIdx < 0 \/ endIdx >= Len(paragraphs) THEN <<>>
  ELSE LET startRange == SplitFirst(RangeOf(paragraphs, startIdx))
           endRangeRaw == RangeOf(paragraphs, endIdx)
           endRange == IF IncludesDash(endRangeRaw)
                          /\ SplitSecond(endRangeRaw) # <<>>
                       THEN SplitSecond(endRangeRaw) ELSE endRangeRaw
       IN IF startRange # <<>> /\ endRange # <<>>
          THEN startRange \o <<Dash>> \o endRange
          ELSE IF startRange # <<>> THEN startRange ELSE endRange

\* state.paragraphs: at most NumPar paragraphs, each with a range string.
ParagraphLists ==
  UNION {[1 .. n -> [range : RangeStrings]] : n \in 0 .. NumPar}

\* Index arguments: -1, every index up to one past the last, and Infinity
\* (computeSegStart of a divider without anchors).
IndexArgs == (-1 .. NumPar) \cup {Infinity}

NoLabel == <<"not computed">>

InitRanges ==
  /\ EditorAtRest
  /\ session = SessionIdle
  /\ preview = PreviewIdle
  /\ \E ps \in ParagraphLists : \E s \in IndexArgs : \E e \in IndexArgs :
       resolver = [pc |-> "ranges", paragraphs |-> ps, startIdx |-> s,
                   endIdx |-> e, label |-> NoLabel, chartLabel |-> NoLabel,
                   wordLabel |-> NoLabel]

\* An export calls humanRangeFromIdx(segStart, segEnd, paragraphs).
LabelForExport ==
  /\ resolver.pc = "ranges"
  /\ resolver.label = NoLabel
  /\ resolver' = [resolver EXCEPT
       !.label = humanRangeFromIdx(resolver.startIdx, resolver.endIdx,
                                   resolver.paragraphs)]
  /\ UNCHANGED <<editorVars, session, preview>>

\* The chart editor calls its own humanRangeFromIdx.
LabelForChart ==
  /\ resolver.pc = "ranges"
  /\ resolver.chartLabel = NoLabel
  /\ resolver' = [resolver EXCEPT
       !.chartLabel = chartHumanRangeFromIdx(resolver.startIdx,
                                             resolver.endIdx,
                                             resolver.paragraphs)]
  /\ UNCHANGED <<editorVars, session, preview>>

\* The Word export calls its own humanRangeFromIdx.
LabelForWord ==
  /\ resolver.pc = "ranges"
  /\ resolver.wordLabel = NoLabel
  /\ resolver' = [resolver EXCEPT
       !.wordLabel = wordHumanRangeFromIdx(resolver.startIdx,
                                           resolver.endIdx,
                                           resolver.paragraphs)]
  /\ UNCHANGED <<editorVars, session, preview>>

NextRanges == LabelForExport \/ LabelForChart \/ LabelForWord

SpecRanges == InitRanges /\ [][NextRanges]_vars

(* ---------------------------- row heights ----------------------------- *)

\* Layout constants of the chart editor's overview table (px).
chartLayout ==
  [heightPerParagraph |-> 25, minRowHeight |-> 40,
   maxTableHeight |-> 880, headerHeight |-> 40]

\* Layout constants of the Word export's overview table (DXA).
wordLayout ==
  [heightPerParagraph |-> 200, minRowHeight |-> 400,
   maxTableHeight |-> 14000, headerHeight |-> 400]

\* row.paragraphCount values (segEnd - segStart + 1) of the rows of a table.
ParagraphCounts == {0, 1, 3, 17, 34, 45, 58, 70}

\* rowData: one paragraph count per segment row.
RowLists == UNION {[1 .. n -> ParagraphCounts] : n \in 0 .. MaxDividers}

\* Math.max
MathMax(a, b) == IF a >= b THEN a ELSE b

\* Math.max(minRowHeight, paragraphCount * heightPerParagraph)
naturalHeight(layout, paragraphCount) ==
  MathMax(layout.minRowHeight, paragraphCount * layout.heightPerParagraph)

RECURSIVE SumOf(_)
SumOf(seq) == IF seq = <<>> THEN 0 ELSE Head(seq) + SumOf(Tail(seq))

\* rowData.reduce(...) + headerHeight
totalNaturalHeight(layout, counts) ==
  SumOf([i \in DOMAIN counts |-> naturalHeight(layout, counts[i])])
    + layout.headerHeight

\* Mutant: the scale is taken over the whole table, header included.
heightScale_HeaderIncluded(layout, total) ==
  IF total > layout.maxTableHeight
  THEN [num |-> layout.maxTableHeight, den |-> total]
  ELSE [num |-> 1, den |-> 1]

\* heightScale, kept as the exact fraction num / den.
heightScale(layout, total) ==
  IF total > layout.maxTableHeight
  THEN [num |-> layout.maxTableHeight - layout.headerHeight,
        den |-> total - layout.headerHeight]
  ELSE [num |-> 1, den |-> 1]

\* Math.round(natural * heightScale): the values the double-precision
\* product can round to.  Math.round is floor(x + 0.5); the exact product is
\* a multiple of 1/den, so the floating-point error can change the result
\* only when the exact product lies on a half, where either neighbour can
\* come out.
rowHeight(natural, scale) ==
  LET twice == 2 * natural * scale.num
      up == (twice + scale.den) \div (2 * scale.den)
  IN IF twice % (2 * scale.den) = scale.den THEN {up - 1, up} ELSE {up}

InitRows ==
  /\ EditorAtRest
  /\ resolver = ResolverIdle
  /\ session = SessionIdle
  /\ \E layout \in {chartLayout, wordLayout} : \E counts \in RowLists :
       preview = [pc |-> "rows", layout |-> layout, counts |-> counts,
                  heights |-> <<>>]

\* The table builder computes the scale once and then one height per row.
ScaleRows ==
  /\ preview.pc = "rows"
  /\ LET layout == preview.layout
         counts == preview.counts
         scale == heightScale(layout, totalNaturalHeight(layout, counts))
         Options(i) == rowHeight(naturalHeight(layout, counts[i]), scale)
     IN \E hs \in [DOMAIN counts -> UNION {Options(i) : i \in DOMAIN counts}] :
          /\ \A i \in DOMAIN counts : hs[i] \in Options(i)
          /\ preview' = [preview EXCEPT !.pc = "heights", !.heights = hs]
  /\ UNCHANGED <<editorVars, resolver, session>>

NextRows == ScaleRows

SpecRows == InitRows /\ [][NextRows]_vars

(* ----------------------------- sanitizeHtml --------------------------- *)

\* Children per element, and top-level nodes, of the parsed HTML.
MaxChildren == 2

allowedTags ==
  {"B", "I", "U", "STRONG", "EM", "SPAN", "BR", "STRIKE", "S", "DEL", "SUB",
   "SUP", "UL", "OL", "LI", "DIV", "P", "FONT", "H1", "H2", "H3"}

TextNode == [tag |-> "#text", attrs |-> {}, children |-> <<>>]

\* Element tags of the inputs: one of the allow-list, one outside it.  Both
\* are block containers, which the HTML parser nests in each other freely.
ElementTags == {"DIV", "BLOCKQUOTE"}

\* Attribute sets of the inputs: none, or a class with an event handler.
AttrSets == {{}, {"class", "onclick"}}

\* Child lists the parser can produce: at most MaxChildren nodes, and no
\* two text nodes in a row (the parser joins adjacent text).
ChildLists(S) ==
  {list \in UNION {[1 .. k -> S] : k \in 0 .. MaxChildren} :
     \A i \in 1 .. (Len(list) - 1) :
       ~(list[i].tag = "#text" /\ list[i + 1].tag = "#text")}

\* Nodes without children: a text node or an empty element.
LeafNodes ==
  {TextNode} \cup [tag : ElementTags, attrs : AttrSets, children : {<<>>}]

\* Nodes whose children are leaves.
Nodes ==
  LeafNodes \cup
    [tag : ElementTags, attrs : AttrSets,
     children : ChildLists(LeafNodes) \ {<<>>}]

\* temp.childNodes after temp.innerHTML = html
ParsedHtml == ChildLists(Nodes)

\* The attributes an allowed element keeps: class, and color / size on FONT.
\* (style is rewritten to its safe properties; the inputs carry none.)
keepsAttribute(tag, name) ==
  \/ name = "class"
  \/ name = "style"
  \/ (name \in {"color", "size"} /\ tag = "FONT")

\* cleanNode(node), as the child list node ends with.  The loop walks the
\* snapshot Array.from(node.childNodes): a disallowed child is replaced by
\* its own children, which are not in the snapshot and are not visited; an
\* allowed child loses its unsafe attributes and is cleaned in turn.
RECURSIVE cleanNode(_)
cleanNode(childNodes) ==
  IF childNodes = <<>> THEN <<>>
  ELSE LET child == Head(childNodes)
           rest == cleanNode(Tail(childNodes))
       IN IF child.tag = "#text" THEN <<child>> \o rest
          ELSE IF child.tag \notin allowedTags THEN child.children \o rest
          ELSE << [tag |-> child.tag,
                   attrs |-> {a \in child.attrs : keepsAttribute(child.tag, a)},
                   children |-> cleanNode(child.children)] >> \o rest

\* sanitizeHtml(html), on the parsed nodes: empty input gives "".
sanitizeHtml(nodes) == IF nodes = <<>> THEN <<>> ELSE cleanNode(nodes)

InitSanitizer ==
  /\ EditorAtRest
  /\ resolver = ResolverIdle
  /\ session = SessionIdle
  /\ \E nodes \in ParsedHtml :
       preview = [pc |-> "html", nodes |-> nodes, result |-> <<>>]

\* A blur handler stores sanitizeHtml(el.innerHTML).
Sanitize ==
  /\ preview.pc = "html"
  /\ preview' = [preview EXCEPT !.pc = "clean",
                                !.result = sanitizeHtml(preview.nodes)]
  /\ UNCHANGED <<editorVars, resolver, session>>

NextSanitizer == Sanitize

SpecSanitizer == InitSanitizer /\ [][NextSanitizer]_vars

(* ------------------- book page, autosave and storage ------------------ *)

\* Structural calls followed on one book, over all its page loads.
MaxEdits == 3

\* The canonical id of the book the page shows (state.bookId).
BookId == "book"

\* state.bookId before a book is loaded (null): falsy, and no book's id.
NoBookId == ""

\* window.localStorage as a function from keys to stored items; no keys.
EmptyStorage == [key \in {} |-> Null]

\* The structural calls the page's buttons can make.
Calls ==
  {[op |-> op, arg |-> p] :
     op \in {"addSegment", "addSection", "addDivision"}, p \in ParIdx}
  \cup
  {[op |-> op, arg |-> id] :
     op \in {"deleteSegment", "deleteSection", "deleteDivision"}, id \in Ids}

\* The called operation, run on w.
Apply(w, call) ==
  CASE call.op = "addSegment"     -> addSegment(w, call.arg, FALSE)
    [] call.op = "addSection"     -> addSection(w, call.arg, FALSE, Null, FALSE)
    [] call.op = "addDivision"    -> addDivision(w, call.arg, FALSE)
    [] call.op = "deleteSegment"  -> deleteSegment(w, call.arg)
    [] call.op = "deleteSection"  -> deleteSection(w, call.arg)
    [] call.op = "deleteDivision" -> deleteDivision(w, call.arg)

\* Mutant: the pending timeout is not cleared before the new one is set.
setAutosaveTimeout_NoClear(s) ==
  LET handle == s.handles + 1
  IN [s EXCEPT !.timers = @ \cup {handle},
               !.autosaveTimer = handle,
               !.handles = handle,
               !.saves = 0]

\* scheduleAutosave() with the browser's timer table: clearTimeout of the
\* stored handle, then setTimeout, whose new handle is stored.
setAutosaveTimeout(s) ==
  LET handle == s.handles + 1
  IN [s EXCEPT !.timers = (@ \ {s.autosaveTimer}) \cup {handle},
               !.autosaveTimer = handle,
               !.handles = handle,
               !.saves = 0]

\* The data object saveBook stringifies: the three lists, without state.ids.
bookData(s) ==
  [bookId |-> s.bookId,
   divisions |-> s.state.divisions,
   sections |-> s.state.sections,
   segments |-> s.state.segments]

\* saveBook(): nothing is written without a bookId.
saveBook(s) ==
  IF s.bookId = NoBookId THEN s
  ELSE [s EXCEPT !.localStorage =
          [key \in DOMAIN @ \cup {s.bookId} |->
             IF key = s.bookId THEN bookData(s) ELSE @[key]]]

\* localStorage.getItem(bookId) is not null.
hasItem(storage, bookId) == bookId \in DOMAIN storage

\* loadBook(bookId) when the item is there: the parsed lists.
loadBook(storage, bookId) ==
  [bookId |-> storage[bookId].bookId,
   divisions |-> storage[bookId].divisions,
   sections |-> storage[bookId].sections,
   segments |-> storage[bookId].segments]

\* Object.assign(state, saved) on the state of a freshly loaded page: the
\* lists and the bookId are replaced, state.ids keeps its initial zeros.
assignSaved(saved) ==
  [EmptyState EXCEPT !.divisions = saved.divisions,
                     !.sections = saved.sections,
                     !.segments = saved.segments]

\* The page opened with ?name=: a default book with empty lists.
InitSession ==
  /\ EditorAtRest
  /\ resolver = ResolverIdle
  /\ preview = PreviewIdle
  /\ session = [pc |-> "open", bookId |-> BookId, state |-> EmptyState,
                autosaveTimer |-> Null, timers |-> {}, handles |-> 0,
                localStorage |-> EmptyStorage, saves |-> 0, edits |-> 0,
                scheduled |-> <<>>]

\* The timer table after n calls of scheduleAutosave in a row.
RECURSIVE scheduleTimes(_, _)
scheduleTimes(s, n) ==
  IF n = 0 THEN s ELSE scheduleTimes(setAutosaveTimeout(s), n - 1)

\* A button of the page calls a structural operation.  Every call of
\* scheduleAutosave it makes clears the timeout and sets it again;
\* session.scheduled keeps the calls of scheduleAutosave the operation made.
PageCall ==
  /\ session.pc = "open"
  /\ session.edits < MaxEdits
  /\ \E call \in Calls :
       \E w \in {Apply([state |-> session.state, autosaveTimer |-> FALSE,
                        scheduled |-> <<>>], call)} :
         /\ w.state.ids.segment <= MaxId
         /\ w.state.ids.section <= MaxId
         /\ w.state.ids.division <= MaxId
         /\ LET s == [session EXCEPT !.state = w.state, !.edits = @ + 1,
                                     !.scheduled = w.scheduled]
            IN session' = scheduleTimes(s, Len(w.scheduled))
  /\ UNCHANGED <<editorVars, resolver, preview>>

\* A pending timeout fires: the callback calls saveBook(state).
AutosaveFire ==
  /\ session.pc = "open"
  /\ \E handle \in session.timers :
       session' = saveBook([session EXCEPT !.timers = @ \ {handle},
                                           !.saves = @ + 1])
  /\ UNCHANGED <<editorVars, resolver, preview>>

\* The page is loaded again with ?bookId=: module state starts afresh, the
\* old page's timeouts are gone, and the saved book is assigned to state.
ReopenBook ==
  /\ session.pc = "open"
  /\ hasItem(session.localStorage, BookId)
  /\ session' = [session EXCEPT
       !.bookId = loadBook(session.localStorage, BookId).bookId,
       !.state = assignSaved(loadBook(session.localStorage, BookId)),
       !.autosaveTimer = Null, !.timers = {}, !.handles = 0, !.saves = 0,
       !.scheduled = <<>>]
  /\ UNCHANGED <<editorVars, resolver, preview>>

NextSession == PageCall \/ AutosaveFire \/ ReopenBook

SpecSession == InitSession /\ [][NextSession]_vars

\* The browser's event loop runs the callback of every timeout that stays
\* pending: a timeout is only ever removed by firing, by clearTimeout (which
\* scheduleAutosave follows with a new timeout) or by leaving the page.
SpecSessionFair == SpecSession /\ WF_vars(AutosaveFire)

(* --------------- builder page and chart editor, one book -------------- *)

\* Clicks on the chart editor's Save button.
MaxChartSaves == 1

\* let bookState = null, as a record of the shape loadBook returns: no bookId.
NoBookState ==
  [bookId |-> NoBookId, divisions |-> <<>>, sections |-> <<>>,
   segments |-> <<>>]

\* previewPage.js saveBook(): the lists of bookState, as loaded when the page
\* was opened, overwrite the stored item; nothing is written without a
\* bookState with a bookId.
chartSaveBook(storage, bookState) ==
  IF bookState.bookId = NoBookId THEN storage
  ELSE [key \in DOMAIN storage \cup {bookState.bookId} |->
          IF key = bookState.bookId
          THEN [bookId |-> bookState.bookId,
                divisions |-> bookState.divisions,
                sections |-> bookState.sections,
                segments |-> bookState.segments]
          ELSE storage[key]]

\* The builder page shows a new book; the chart editor is not open.
InitPages ==
  /\ EditorAtRest
  /\ resolver = ResolverIdle
  /\ session = [pc |-> "open", bookId |-> BookId, state |-> EmptyState,
                autosaveTimer |-> Null, timers |-> {}, handles |-> 0,
                localStorage |-> EmptyStorage, saves |-> 0, edits |-> 0,
                scheduled |-> <<>>]
  /\ preview = [pc |-> "chart", bookState |-> NoBookState, saves |-> 0]

\* preview.html?bookId= is opened (or reloaded) in a tab of its own:
\* DOMContentLoaded loads the stored book into bookState; a book that is not
\* stored leaves bookState null.
OpenChart ==
  /\ preview.pc = "chart"
  /\ preview' = [preview EXCEPT
       !.bookState = IF hasItem(session.localStorage, BookId)
                     THEN loadBook(session.localStorage, BookId)
                     ELSE NoBookState]
  /\ UNCHANGED <<editorVars, resolver, session>>

\* The chart editor's Save button: saveBook() of bookState.
ChartSave ==
  /\ preview.pc = "chart"
  /\ preview.saves < MaxChartSaves
  /\ session' = [session EXCEPT
       !.localStorage = chartSaveBook(@, preview.bookState)]
  /\ preview' = [preview EXCEPT !.saves = @ + 1]
  /\ UNCHANGED <<editorVars, resolver>>

NextPages == PageCall \/ AutosaveFire \/ ReopenBook \/ OpenChart \/ ChartSave

SpecPages == InitPages /\ [][NextPages]_vars

(* ------------------- HTML preview and its sync back ------------------- *)

\* Cells of the preview the user edits before one sync.
MaxCellEdits == 1

\* Aggregates the main app can hold when the preview is opened: the ones
\* reached from the empty aggregate by at most n structural calls.
RECURSIVE ReachIn(_)
ReachIn(n) ==
  IF n = 0
  THEN {[state |-> EmptyState, autosaveTimer |-> FALSE, scheduled |-> <<>>]}
  ELSE LET before == ReachIn(n - 1)
       IN before \cup
            {w \in {Apply([b EXCEPT !.scheduled = <<>>], call) :
                      b \in before, call \in Calls} :
               /\ w.state.ids.segment <= MaxId
               /\ w.state.ids.section <= MaxId
               /\ w.state.ids.division <= MaxId}

\* The kinds of titled items, as named in the changes message.
Kinds == {"divisions", "sections", "segments", "paragraphs"}

\* title: "" of every divider created and every paragraph loaded.
NoTitle == <<>>

\* The main app of the preview: the aggregate, and the title of every item
\* by its position in state.divisions / sections / segments / paragraphs.
AppOf(st) ==
  [state |-> st,
   keyVerse |-> NoTitle,
   titles |-> [divisions  |-> [i \in DOMAIN st.divisions |-> NoTitle],
               sections   |-> [i \in DOMAIN st.sections |-> NoTitle],
               segments   |-> [i \in DOMAIN st.segments |-> NoTitle],
               paragraphs |-> [i \in 1 .. NumPar |-> NoTitle]]]

\* Texts the user types into a cell.
EditTexts == {<<"x">>, <<" ", "x">>}

\* String.prototype.trim
RECURSIVE Trim(_)
Trim(str) ==
  IF str = <<>> THEN <<>>
  ELSE IF Head(str) = " " THEN Trim(Tail(str))
  ELSE IF str[Len(str)] = " " THEN Trim(SubSeq(str, 1, Len(str) - 1))
  ELSE str

\* [...state.segments], each object remembering its position in the list.
Positioned(list) ==
  [i \in DOMAIN list |->
     [id |-> list[i].id, paragraphIndexes |-> list[i].paragraphIndexes,
      sectionId |-> list[i].sectionId, at |-> i]]

\* The rows of the overview table: the segments sorted by start, each with
\* the position of its section (sectionsById[seg.sectionId]) and of its
\* division (divisionsById[sec.divisionId]); 0 for undefined / null.
OverviewRows(st) ==
  LET segmentsSorted == sortByStart(Positioned(st.segments))
  IN [r \in DOMAIN segmentsSorted |->
        LET seg == segmentsSorted[r]
            sec == ById(st.sections, seg.sectionId)
            div == IF sec = 0 THEN 0
                   ELSE ById(st.divisions, st.sections[sec].divisionId)
        IN [seg |-> seg, sec |-> sec, div |-> div,
            secId |-> IF sec = 0 THEN Null ELSE st.sections[sec].id,
            divId |-> IF div = 0 THEN Null ELSE st.divisions[div].id]]

\* A contenteditable cell: the text it shows and, for the comparison with
\* the main app, the position of the item it was rendered from (0: none).
Cell(item, titles) ==
  [item |-> item, text |-> IF item = 0 THEN NoTitle ELSE titles[item]]

\* The rows that emit a span cell: div?.id !== lastDiv, lastDiv starting as
\* null (which no row's id, undefined included, is equal to).
BeginsSpan(ids, r) == r = 1 \/ ids[r] # ids[r - 1]

\* td.division-cell elements, in document order.
divisionCells(app) ==
  LET rows == OverviewRows(app.state)
      begins == SelectSeq([r \in DOMAIN rows |-> r],
                  LAMBDA r : BeginsSpan([q \in DOMAIN rows |-> rows[q].divId], r))
  IN [k \in DOMAIN begins |-> Cell(rows[begins[k]].div, app.titles.divisions)]

\* td.section-cell elements, in document order.
sectionCells(app) ==
  LET rows == OverviewRows(app.state)
      begins == SelectSeq([r \in DOMAIN rows |-> r],
                  LAMBDA r : BeginsSpan([q \in DOMAIN rows |-> rows[q].secId], r))
  IN [k \in DOMAIN begins |-> Cell(rows[begins[k]].sec, app.titles.sections)]

\* .segment-title elements: the div of every overview row, then the h2 of
\* every segment page.
segmentCells(app) ==
  LET rows == OverviewRows(app.state)
      once == [r \in DOMAIN rows |-> Cell(rows[r].seg.at, app.titles.segments)]
  IN once \o once

\* span.paragraph-title elements of one segment page: the paragraphs from
\* segStart to segEnd that exist.
RECURSIVE paragraphCellsFrom(_, _, _)
paragraphCellsFrom(i, segEnd, app) ==
  IF i > segEnd \/ i >= NumPar THEN <<>>
  ELSE (IF i < 0 THEN <<>> ELSE <<Cell(i + 1, app.titles.paragraphs)>>)
         \o paragraphCellsFrom(i + 1, segEnd, app)

RECURSIVE pagesFrom(_, _, _)
pagesFrom(r, segmentsSorted, app) ==
  IF r > Len(segmentsSorted) THEN <<>>
  ELSE paragraphCellsFrom(computeSegStart(segmentsSorted[r]),
                          computeSegEnd(segmentsSorted[r], segmentsSorted,
                                        NumPar),
                          app)
         \o pagesFrom(r + 1, segmentsSorted, app)

\* span.paragraph-title elements of all segment pages, in document order.
paragraphCells(app) ==
  pagesFrom(1, sortByStart(Positioned(app.state.segments)), app)

\* buildHTMLDocument(state): the editable cells of the preview document.
buildHTMLDocument(app) ==
  [keyVerse   |-> app.keyVerse,
   divisions  |-> divisionCells(app),
   sections   |-> sectionCells(app),
   segments   |-> segmentCells(app),
   paragraphs |-> paragraphCells(app)]

\* collectChanges(): the key verse, and for every kind the trimmed text of
\* every cell under the cell's position among the cells of its kind.
collectChanges(dom) ==
  [keyVerse   |-> Trim(dom.keyVerse),
   divisions  |-> [k \in DOMAIN dom.divisions |-> Trim(dom.divisions[k].text)],
   sections   |-> [k \in DOMAIN dom.sections |-> Trim(dom.sections[k].text)],
   segments   |-> [k \in DOMAIN dom.segments |-> Trim(dom.segments[k].text)],
   paragraphs |-> [k \in DOMAIN dom.paragraphs |->
                     Trim(dom.paragraphs[k].text)]]

\* changes[kind].forEach(({index, title}) => { if (state[kind][index])
\* state[kind][index].title = title; })
applyTitles(titles, changed) ==
  [j \in DOMAIN titles |-> IF j \in DOMAIN changed THEN changed[j] ELSE titles[j]]

\* applyPreviewChanges(changes)
applyPreviewChanges(app, changes) ==
  [app EXCEPT
     !.keyVerse = changes.keyVerse,
     !.titles.divisions = applyTitles(@, changes.divisions),
     !.titles.sections = applyTitles(@, changes.sections),
     !.titles.segments = applyTitles(@, changes.segments),
     !.titles.paragraphs = applyTitles(@, changes.paragraphs)]

NoMessage == [keyVerse |-> NoTitle, divisions |-> <<>>, sections |-> <<>>,
              segments |-> <<>>, paragraphs |-> <<>>]

NoDocument == NoMessage

InitPreview ==
  /\ EditorAtRest
  /\ resolver = ResolverIdle
  /\ session = SessionIdle
  /\ \E w \in ReachIn(MaxEdits) :
       preview = [pc |-> "app", app |-> AppOf(w.state), shown |-> NoDocument,
                  dom |-> NoDocument, edits |-> 0, message |-> NoMessage]

\* The preview button: exportHTML(state) writes the document to a new window.
OpenPreview ==
  /\ preview.pc = "app"
  /\ preview' = [preview EXCEPT !.pc = "preview",
                                !.shown = buildHTMLDocument(preview.app),
                                !.dom = buildHTMLDocument(preview.app)]
  /\ UNCHANGED <<editorVars, resolver, session>>

\* The user types a text into one title cell of the preview.
EditCell ==
  /\ preview.pc = "preview"
  /\ preview.edits < MaxCellEdits
  /\ \E kind \in Kinds : \E k \in DOMAIN preview.dom[kind] :
       \E text \in EditTexts :
         preview' = [preview EXCEPT !.dom[kind][k].text = text,
                                    !.edits = @ + 1]
  /\ UNCHANGED <<editorVars, resolver, session>>

\* The user types a text into the key verse cell.
EditKeyVerse ==
  /\ preview.pc = "preview"
  /\ preview.edits < MaxCellEdits
  /\ \E text \in EditTexts :
       preview' = [preview EXCEPT !.dom.keyVerse = text, !.edits = @ + 1]
  /\ UNCHANGED <<editorVars, resolver, session>>

\* syncChangesToMainApp(): collectChanges() and postMessage to the opener.
SyncChanges ==
  /\ preview.pc = "preview"
  /\ preview' = [preview EXCEPT !.pc = "sent",
                                !.message = collectChanges(preview.dom)]
  /\ UNCHANGED <<editorVars, resolver, session>>

\* The main app's message handler: applyPreviewChanges(event.data.changes).
ReceiveChanges ==
  /\ preview.pc = "sent"
  /\ preview' = [preview EXCEPT
       !.pc = "applied",
       !.app = applyPreviewChanges(preview.app, preview.message)]
  /\ UNCHANGED <<editorVars, resolver, session>>

NextPreview ==
  OpenPreview \/ EditCell \/ EditKeyVerse \/ SyncChanges \/ ReceiveChanges

SpecPreview == InitPreview /\ [][NextPreview]_vars

(* ------------------- overview and segment grids ----------------------- *)

\* Structural calls made before a document is rendered.
MaxCalls == 3

\* paragraphs.length of the book being rendered.
paragraphsLength == NumPar

\* let lastDivStart = null: what no start position (a number) is equal to.
NoStart == -2

\* Number of leading dividers of sorted whose start is <= segStart: the loop
\* of findDivisionForSegment / findSectionForSegment leaves result at the
\* last of them (null when there is none).
CountNotAfter(sorted, segStart) ==
  Cardinality({i \in DOMAIN sorted :
     \A j \in 1 .. i : MathMin(sorted[j].paragraphIndexes) <= segStart})

\* getDivStart(findDivisionForSegment(segStart)) and
\* getSecStart(findSectionForSegment(segStart)): -1 for null.
getStart(list, segStart) ==
  LET sorted == sortByStart(list)
      k == CountNotAfter(sorted, segStart)
  IN IF k = 0 THEN -1 ELSE MathMin(sorted[k].paragraphIndexes)

\* rowData of the position-derived overview: one entry per segment in the
\* order of segmentsSorted.
rowData(st) ==
  LET segmentsSorted == sortByStart(st.segments)
  IN [r \in DOMAIN segmentsSorted |->
        LET segStart == computeSegStart(segmentsSorted[r])
        IN [seg |-> segmentsSorted[r].id,
            segStart |-> segStart,
            divStart |-> getStart(st.divisions, segStart),
            secStart |-> getStart(st.sections, segStart)]]

\* "restart" begins a vertical merge, "continue" extends the one above.
MergeOf(begins) == IF begins THEN "restart" ELSE "continue"

\* rowData.forEach of buildOverviewPage, from row r on, with the values of
\* lastDivStart and lastSecStart the previous rows left.
RECURSIVE overviewRowsFrom(_, _, _, _)
overviewRowsFrom(rows, r, lastDivStart, lastSecStart) ==
  IF r > Len(rows) THEN <<>>
  ELSE <<[seg |-> rows[r].seg, segStart |-> rows[r].segStart,
          divValue |-> rows[r].divStart, secValue |-> rows[r].secStart,
          div |-> MergeOf(rows[r].divStart # lastDivStart),
          sec |-> MergeOf(rows[r].secStart # lastSecStart)]>>
       \o overviewRowsFrom(rows, r + 1, rows[r].divStart, rows[r].secStart)

\* Mutant: lastSecStart is never updated.
buildOverviewPage_StaleLast(st) ==
  LET rows == rowData(st)
  IN [r \in DOMAIN rows |->
        [seg |-> rows[r].seg, segStart |-> rows[r].segStart,
         divValue |-> rows[r].divStart, secValue |-> rows[r].secStart,
         div |-> MergeOf(r = 1 \/ rows[r].divStart # rows[r - 1].divStart),
         sec |-> MergeOf(rows[r].secStart # NoStart)]]

\* pages/overviewPage.js buildOverviewPage: the body rows of the table.
buildOverviewPage(st) == overviewRowsFrom(rowData(st), 1, NoStart, NoStart)

\* for (let j = idx + 1; j < rowData.length; j++) { if (same) rowspan++;
\* else break; }: the rows from idx on that carry the value of row idx without
\* interruption.
RunFrom(values, idx) ==
  Cardinality({j \in idx .. Len(values) :
     \A q \in idx .. j : values[q] = values[idx]})

\* rowMeta of the chart editor's overview, with the row it belongs to.
rowMeta(st) ==
  LET rows == rowData(st)
      divStarts == [q \in DOMAIN rows |-> rows[q].divStart]
      secStarts == [q \in DOMAIN rows |-> rows[q].secStart]
  IN [idx \in DOMAIN rows |->
        LET isNewDiv == idx = 1 \/ rows[idx].divStart # rows[idx - 1].divStart
            isNewSec == idx = 1 \/ rows[idx].secStart # rows[idx - 1].secStart
        IN [seg |-> rows[idx].seg, segStart |-> rows[idx].segStart,
            divValue |-> rows[idx].divStart, secValue |-> rows[idx].secStart,
            isNewDiv |-> isNewDiv, isNewSec |-> isNewSec,
            divRowspan |-> IF isNewDiv THEN RunFrom(divStarts, idx) ELSE 1,
            secRowspan |-> IF isNewSec THEN RunFrom(secStarts, idx) ELSE 1]]

\* wordExport.js: segDivIds, segSecIds and the divMerge / secMerge arrays.
\* seg.sectionId || null and sec.divisionId are ids or null.
wordMerges(st) ==
  LET segmentsSorted == sortByStart(st.segments)
      segDivIds == [i \in DOMAIN segmentsSorted |->
                      LET sec == ById(st.sections, segmentsSorted[i].sectionId)
                      IN IF sec = 0 THEN Null ELSE st.sections[sec].divisionId]
      segSecIds == [i \in DOMAIN segmentsSorted |-> segmentsSorted[i].sectionId]
  IN [i \in DOMAIN segmentsSorted |->
        [seg |-> segmentsSorted[i].id,
         segStart |-> computeSegStart(segmentsSorted[i]),
         divValue |-> segDivIds[i], secValue |-> segSecIds[i],
         div |-> MergeOf(i = 1 \/ segDivIds[i] # segDivIds[i - 1]),
         sec |-> MergeOf(i = 1 \/ segSecIds[i] # segSecIds[i - 1])]]

\* divRowspans[div.id] / secRowspans[sec.id]: the rows, consecutive or not,
\* whose division (section) has that id.
RowsWith(ids, id) == Cardinality({q \in DOMAIN ids : ids[q] = id})

\* exportHTML.js buildOverviewTableHTML: for every body row the rowspan of
\* the division cell and of the section cell it emits, 0 when it emits none.
\* A row without division has div?.id undefined, which differs from the
\* initial null of lastDiv and equals the undefined an earlier such row left.
buildOverviewTableHTML(st) ==
  LET rows == OverviewRows(st)
      divIds == [q \in DOMAIN rows |-> rows[q].divId]
      secIds == [q \in DOMAIN rows |-> rows[q].secId]
  IN [r \in DOMAIN rows |->
        [seg |-> rows[r].seg.id,
         divValue |-> divIds[r], secValue |-> secIds[r],
         divRowspan |-> IF ~BeginsSpan(divIds, r) THEN 0
                        ELSE IF rows[r].div = 0 THEN 1
                        ELSE RowsWith(divIds, divIds[r]),
         secRowspan |-> IF ~BeginsSpan(secIds, r) THEN 0
                        ELSE IF rows[r].sec = 0 THEN 1
                        ELSE RowsWith(secIds, secIds[r])]]

\* The two header rows of a segment page: title and range, no side columns.
SegmentHeaderRows ==
  <<[kind |-> "title", paragraph |-> -1, left |-> "none", right |-> "none"],
    [kind |-> "range", paragraph |-> -1, left |-> "none", right |-> "none"]>>

\* Mutant: mergeState is never set to "continue".
RECURSIVE paragraphRowsFrom_AlwaysRestart(_, _, _)
paragraphRowsFrom_AlwaysRestart(i, segEnd, mergeState) ==
  IF i > segEnd THEN <<>>
  ELSE IF i < 0 \/ i >= paragraphsLength
  THEN <<[kind |-> "TypeError", paragraph |-> i,
          left |-> "none", right |-> "none"]>>
  ELSE <<[kind |-> "header", paragraph |-> i,
          left |-> mergeState, right |-> mergeState],
         [kind |-> "writing", paragraph |-> i,
          left |-> "continue", right |-> "continue"]>>
       \o paragraphRowsFrom_AlwaysRestart(i + 1, segEnd, mergeState)

\* for (let i = segStart; i <= segEnd; i++) of buildSegmentPage, from i on:
\* a header row with mergeState in both side columns and a writing-space row
\* with "continue".  paragraphs[i] undefined makes p.range throw.
RECURSIVE paragraphRowsFrom(_, _, _)
paragraphRowsFrom(i, segEnd, mergeState) ==
  IF i > segEnd THEN <<>>
  ELSE IF i < 0 \/ i >= paragraphsLength
  THEN <<[kind |-> "TypeError", paragraph |-> i,
          left |-> "none", right |-> "none"]>>
  ELSE <<[kind |-> "header", paragraph |-> i,
          left |-> mergeState, right |-> mergeState],
         [kind |-> "writing", paragraph |-> i,
          left |-> "continue", right |-> "continue"]>>
       \o paragraphRowsFrom(i + 1, segEnd, "continue")

\* pages/segmentPage.js buildSegmentPage: the rows of the table, with the
\* span the page was built for.
buildSegmentPage(st, seg, segmentsSorted) ==
  LET segStart == computeSegStart(seg)
      segEnd == computeSegEnd(seg, segmentsSorted, paragraphsLength)
  IN [seg |-> seg.id, segStart |-> segStart, segEnd |-> segEnd,
      rows |-> SegmentHeaderRows
                 \o paragraphRowsFrom(segStart, segEnd, "restart")]

\* segmentsSorted.map(seg => buildSegmentPage(docx, state, seg, segmentsSorted))
segmentSections(st) ==
  LET segmentsSorted == sortByStart(st.segments)
  IN [r \in DOMAIN segmentsSorted |->
        buildSegmentPage(st, segmentsSorted[r], segmentsSorted)]

\* Documents rendered from one aggregate.
Renderers == {"exportWord", "chart", "wordExport", "exportHTML"}

InitLayout ==
  /\ EditorAtRest
  /\ resolver = ResolverIdle
  /\ session = SessionIdle
  /\ \E w \in ReachIn(MaxCalls) :
       preview = [pc |-> "layout", state |-> w.state, built |-> {},
                  overviewTable |-> <<>>, segmentSections |-> <<>>,
                  rowMeta |-> <<>>, wordMerges |-> <<>>, tableHTML |-> <<>>]

\* exportWord(state): the overview table and one page per segment.
ExportWord ==
  /\ preview.pc = "layout"
  /\ "exportWord" \notin preview.built
  /\ preview' = [preview EXCEPT
       !.built = @ \cup {"exportWord"},
       !.overviewTable = buildOverviewPage(preview.state),
       !.segmentSections = segmentSections(preview.state)]
  /\ UNCHANGED <<editorVars, resolver, session>>

\* The chart editor renders its overview table.
RenderChart ==
  /\ preview.pc = "layout"
  /\ "chart" \notin preview.built
  /\ preview' = [preview EXCEPT !.built = @ \cup {"chart"},
                                !.rowMeta = rowMeta(preview.state)]
  /\ UNCHANGED <<editorVars, resolver, session>>

\* wordExport.js builds its id-linked overview table.
ExportWordLinked ==
  /\ preview.pc = "layout"
  /\ "wordExport" \notin preview.built
  /\ preview' = [preview EXCEPT !.built = @ \cup {"wordExport"},
                                !.wordMerges = wordMerges(preview.state)]
  /\ UNCHANGED <<editorVars, resolver, session>>

\* exportHTML(state) builds the overview table of the HTML document.
ExportHTML ==
  /\ preview.pc = "layout"
  /\ "exportHTML" \notin preview.built
  /\ preview' = [preview EXCEPT
       !.built = @ \cup {"exportHTML"},
       !.tableHTML = buildOverviewTableHTML(preview.state)]
  /\ UNCHANGED <<editorVars, resolver, session>>

NextLayout == ExportWord \/ RenderChart \/ ExportWordLinked \/ ExportHTML

SpecLayout == InitLayout /\ [][NextLayout]_vars

(* ============================== claims ================================ *)

Range(list) == {list[i] : i \in DOMAIN list}

AnchorSet(d) == {d.paragraphIndexes[i] : i \in DOMAIN d.paragraphIndexes}

AnchoredAt(list, p) == \E d \in Range(list) : p \in AnchorSet(d)

\* A segment of segs links to the section or shares a paragraph index with it.
SectionSupported(segs, sec) ==
  \E g \in Range(segs) :
    g.sectionId = sec.id \/ AnchorSet(g) \cap AnchorSet(sec) # {}

\* A section of secs links to the division or shares a paragraph index with it.
DivisionSupported(secs, div) ==
  \E x \in Range(secs) :
    x.divisionId = div.id \/ AnchorSet(x) \cap AnchorSet(div) # {}

\* C1: after every public call, every section is supported by a segment and
\* every division is supported by a section (id link or shared index).
C1_EverySupported ==
  /\ \A sec \in Range(state.sections) :
       SectionSupported(state.segments, sec)
  /\ \A div \in Range(state.divisions) :
       DivisionSupported(state.sections, div)

\* A deleteSegment call removed a section too, and sections and divisions
\* remain.
C1_Witness ==
  /\ lastCall.op = "deleteSegment" /\ lastCall.pre = "present"
  /\ lastCall.n - Count(state) >= 2
  /\ state.sections # <<>> /\ state.divisions # <<>>

\* C3: a deleteSegment of an existing segment removes, in the same call, that
\* segment, exactly the sections left unsupported and then exactly the
\* divisions left unsupported; a deleteSection of an existing section removes
\* that section and exactly the divisions left unsupported.
C3_DeleteCascades ==
  [][ /\ (lastCall'.op = "deleteSegment" /\ lastCall'.pre = "present") =>
           /\ Range(state'.segments) =
                {g \in Range(state.segments) : g.id # lastCall'.arg}
           /\ Range(state'.sections) =
                {x \in Range(state.sections) :
                   SectionSupported(state'.segments, x)}
           /\ Range(state'.divisions) =
                {d \in Range(state.divisions) :
                   DivisionSupported(state'.sections, d)}
      /\ (lastCall'.op = "deleteSection" /\ lastCall'.pre = "present") =>
           /\ state'.segments = state.segments
           /\ Range(state'.sections) =
                {x \in Range(state.sections) : x.id # lastCall'.arg}
           /\ Range(state'.divisions) =
                {d \in Range(state.divisions) :
                   DivisionSupported(state'.sections, d)}
    ]_vars

\* One deleteSegment call removed a segment, a section and a division.
C3_Witness ==
  /\ lastCall.op = "deleteSegment" /\ lastCall.pre = "present"
  /\ lastCall.n - Count(state) >= 3
  /\ Len(state.divisions) < Cardinality(assigned.division)

\* C4: after addSection(p) with p # 0 returns, a segment anchored at p and a
\* segment anchored at 0 exist.
C4_SegmentsAfterAddSection ==
  (lastCall.op = "addSection" /\ lastCall.arg # 0) =>
    /\ AnchoredAt(state.segments, lastCall.arg)
    /\ AnchoredAt(state.segments, 0)

\* C5: addDivision(p), p # 0, on a state with no dividers leaves exactly two
\* divisions, two sections and two segments, each pair anchored at p and 0.
C5_AddDivisionOnEmpty ==
  (lastCall.op = "addDivision" /\ lastCall.arg # 0 /\ lastCall.n = 0) =>
    LET both == {<<lastCall.arg>>, <<0>>}
        Arrays(list) == {d.paragraphIndexes : d \in Range(list)}
    IN /\ Len(state.divisions) = 2 /\ Arrays(state.divisions) = both
       /\ Len(state.sections) = 2 /\ Arrays(state.sections) = both
       /\ Len(state.segments) = 2 /\ Arrays(state.segments) = both

\* addDivision(p), p # 0, has just returned from a state with no dividers.
C5_Witness ==
  /\ lastCall.op = "addDivision" /\ lastCall.arg # 0 /\ lastCall.n = 0
  /\ lastCall.pre = "free"
  /\ Count(state) > 0

DisjointAnchors(list) ==
  /\ \A i \in DOMAIN list : list[i].paragraphIndexes # <<>>
  /\ \A i, j \in DOMAIN list :
       i # j => AnchorSet(list[i]) \cap AnchorSet(list[j]) = {}

\* C6: within each divider type every paragraphIndexes is non-empty and no
\* paragraph index is claimed by two dividers of that type.
C6_AnchorsDisjoint ==
  /\ DisjointAnchors(state.segments)
  /\ DisjointAnchors(state.sections)
  /\ DisjointAnchors(state.divisions)

\* A creation was attempted at a claimed index while every type holds two
\* dividers.
C6_Witness ==
  /\ lastCall.pre = "claimed"
  /\ Len(state.segments) >= 2
  /\ Len(state.sections) >= 2
  /\ Len(state.divisions) >= 2

\* C7: a creation call at an index already claimed by a divider of the same
\* type leaves the three lists (links included) and the id counters unchanged.
C7_DuplicateIsNoOp ==
  [][ lastCall'.pre = "claimed" => state' = state ]_vars

\* addDivision(p), p # 0, was called on a claimed index while no division is
\* anchored at 0: the call had a cascade to make, and made none.
C7_Witness ==
  /\ lastCall.op = "addDivision" /\ lastCall.pre = "claimed"
  /\ lastCall.arg # 0
  /\ ~AnchoredAt(state.divisions, 0)

\* C8: for each divider type, if a divider of that type exists, one of them
\* is anchored at paragraph index 0.
C8_FirstDividerAtZero ==
  /\ state.segments # <<>> => AnchoredAt(state.segments, 0)
  /\ state.sections # <<>> => AnchoredAt(state.sections, 0)
  /\ state.divisions # <<>> => AnchoredAt(state.divisions, 0)

UniqueIds(list) ==
  \A i, j \in DOMAIN list : list[i].id = list[j].id => i = j

\* The ids a step assigns are above every id assigned before.
FreshIds(old, new, before) ==
  \A id \in IdsOf(new) \ IdsOf(old) : \A b \in before : id > b

\* C9: per type, no two dividers present have the same id, and every newly
\* assigned id is greater than every id assigned before, deleted ones included.
C9_IdsUniqueAndFresh ==
  /\ [](/\ UniqueIds(state.segments)
        /\ UniqueIds(state.sections)
        /\ UniqueIds(state.divisions))
  /\ [][ /\ FreshIds(state.segments, state'.segments, assigned.segment)
         /\ FreshIds(state.sections, state'.sections, assigned.section)
         /\ FreshIds(state.divisions, state'.divisions, assigned.division)
       ]_vars

\* A segment was deleted and a segment created later is present.
C9_Witness ==
  \E a \in assigned.segment \ IdsOf(state.segments) :
    \E b \in IdsOf(state.segments) : b > a

\* C10: the id-linked grouping and the position-derived grouping give every
\* segment the same section and the same division.
C10_GroupingsAgree ==
  \A seg \in Range(state.segments) :
    /\ linkedSection(state, seg) =
         findSectionForSegment(state, computeSegStart(seg))
    /\ linkedDivision(state, seg) =
         findDivisionForSegment(state, computeSegStart(seg))

\* The starts (min of paragraphIndexes) are pairwise distinct, lie in
\* [0, totalParagraphs) and include 0.
WellFormedDividers(list, totalParagraphs) ==
  LET Start(d) == CHOOSE m \in AnchorSet(d) : \A q \in AnchorSet(d) : m <= q
  IN /\ \A i \in DOMAIN list : list[i].paragraphIndexes # <<>>
     /\ \A i, j \in DOMAIN list : i # j => Start(list[i]) # Start(list[j])
     /\ \A i \in DOMAIN list : Start(list[i]) \in 0 .. (totalParagraphs - 1)
     /\ \E i \in DOMAIN list : Start(list[i]) = 0

\* C2: for a well-formed list the spans [start, end] of the sorted dividers
\* partition [0, totalParagraphs): every paragraph index is in exactly one
\* span, no span is empty, and consecutive spans are contiguous.
C2_SpansPartition ==
  (/\ resolver.pc = "done"
   /\ WellFormedDividers(resolver.dividers, resolver.totalParagraphs)) =>
    LET sp == resolver.spans
    IN /\ Len(sp) = Len(resolver.dividers)
       /\ \A p \in 0 .. (resolver.totalParagraphs - 1) :
            Cardinality({i \in DOMAIN sp :
                           sp[i].start <= p /\ p <= sp[i].end}) = 1
       /\ \A i \in DOMAIN sp :
            /\ sp[i].start <= sp[i].end
            /\ 0 <= sp[i].start
            /\ sp[i].end <= resolver.totalParagraphs - 1
       /\ \A i \in 1 .. (Len(sp) - 1) : sp[i + 1].start = sp[i].end + 1

\* The spans of a well-formed list of two dividers given out of order, one of
\* them with two anchors, have been computed.
C2_Witness ==
  /\ resolver.pc = "done"
  /\ WellFormedDividers(resolver.dividers, resolver.totalParagraphs)
  /\ Len(resolver.dividers) >= 2
  /\ resolver.sorted # resolver.dividers
  /\ \E i \in DOMAIN resolver.dividers :
       Len(resolver.dividers[i].paragraphIndexes) >= 2

\* C11: deleteDivision(id) changes nothing but the divisions list: segments,
\* sections (links included) and id counters stay, and no division other
\* than the one with that id is removed.
C11_DeleteDivisionFrame ==
  [][ lastCall'.op = "deleteDivision" =>
        /\ state'.segments = state.segments
        /\ state'.sections = state.sections
        /\ state'.ids = state.ids
        /\ Range(state'.divisions) =
             {d \in Range(state.divisions) : d.id # lastCall'.arg}
        /\ Len(state'.divisions) >= Len(state.divisions) - 1
    ]_vars

\* deleteDivision removed a division that a remaining section still links to.
C11_Witness ==
  /\ lastCall.op = "deleteDivision" /\ lastCall.pre = "present"
  /\ ~HasId(state.divisions, lastCall.arg)
  /\ \E x \in Range(state.sections) : x.divisionId = lastCall.arg

\* C12: a delete call with an id no divider of that type has changes neither
\* the lists nor the counters, and neither starts nor resets the timer.
C12_AbsentDeleteIsNoOp ==
  [][ lastCall'.pre = "absent" =>
        /\ state' = state
        /\ autosaveTimer' = autosaveTimer
    ]_vars

\* Both indexes address a paragraph of the list given to the range routines.
BothDefined ==
  /\ Defined(resolver.paragraphs, resolver.startIdx)
  /\ Defined(resolver.paragraphs, resolver.endIdx)

\* C13: for an in-range index i whose range string holds no en-dash, the
\* export helper's humanRangeFromIdx(i, i, paragraphs) is exactly
\* paragraphs[i].range, not the range doubled around an en-dash.
C13_SingleRangeUnchanged ==
  ( /\ resolver.pc = "ranges"
    /\ resolver.label # NoLabel
    /\ resolver.startIdx = resolver.endIdx
    /\ BothDefined
    /\ ~IncludesDash(RangeOf(resolver.paragraphs, resolver.startIdx)) ) =>
    resolver.label = RangeOf(resolver.paragraphs, resolver.startIdx)

\* C19: when startIdx or endIdx addresses no paragraph (negative, past the
\* end, or Infinity), both humanRangeFromIdx routines return the empty
\* string: no error value, and the paragraph list is the one passed in.
C19_OutOfRangeGivesEmpty ==
  (resolver.pc = "ranges" /\ ~BothDefined) =>
    /\ resolver.label \in {NoLabel, <<>>}
    /\ resolver.chartLabel \in {NoLabel, <<>>}

\* Both routines ran with an Infinity start on a non-empty paragraph list.
C19_Witness ==
  /\ resolver.pc = "ranges"
  /\ resolver.startIdx = Infinity
  /\ Defined(resolver.paragraphs, resolver.endIdx)
  /\ resolver.label = <<>>
  /\ resolver.chartLabel = <<>>

Abs(x) == IF x < 0 THEN 0 - x ELSE x

\* C16: when the natural heights and the header exceed maxTableHeight, each
\* scaled height is at most the natural one and the header plus the scaled
\* heights is within half a unit per row of maxTableHeight; otherwise every
\* row keeps its natural height.
C16_RowHeightsFit ==
  preview.pc = "heights" =>
    LET layout == preview.layout
        n == Len(preview.counts)
        Natural(i) == naturalHeight(layout, preview.counts[i])
        total == SumOf([i \in 1 .. n |-> Natural(i)]) + layout.headerHeight
    IN IF total > layout.maxTableHeight
       THEN /\ \A i \in 1 .. n : preview.heights[i] <= Natural(i)
            /\ 2 * Abs(layout.headerHeight + SumOf(preview.heights)
                         - layout.maxTableHeight) <= n
       ELSE \A i \in 1 .. n : preview.heights[i] = Natural(i)

\* A table of two rows was scaled down, and rounding left the total one
\* unit away from maxTableHeight.
C16_Witness ==
  /\ preview.pc = "heights"
  /\ Len(preview.counts) = 2
  /\ totalNaturalHeight(preview.layout, preview.counts)
       > preview.layout.maxTableHeight
  /\ \A i \in 1 .. 2 :
       preview.heights[i] < naturalHeight(preview.layout, preview.counts[i])
  /\ Abs(preview.layout.headerHeight + SumOf(preview.heights)
           - preview.layout.maxTableHeight) = 1

\* Tags of all nodes of a forest, in document order.
RECURSIVE TagsInOrder(_)
TagsInOrder(nodes) ==
  IF nodes = <<>> THEN <<>>
  ELSE <<Head(nodes).tag>> \o TagsInOrder(Head(nodes).children)
         \o TagsInOrder(Tail(nodes))

KeptTag(tag) == tag = "#text" \/ tag \in allowedTags

\* C17: the result of sanitizeHtml holds no element outside the allow-list,
\* and the text nodes and allow-listed elements of the input are all still
\* there in document order (a disallowed element is replaced by its
\* children, also when it sits directly inside another disallowed element).
C17_OnlyAllowedTagsRemain ==
  preview.pc = "clean" =>
    /\ \A i \in DOMAIN TagsInOrder(preview.result) :
         KeptTag(TagsInOrder(preview.result)[i])
    /\ SelectSeq(TagsInOrder(preview.nodes), KeptTag)
         = SelectSeq(TagsInOrder(preview.result), KeptTag)

\* No two dividers of the list share a start.
DistinctStarts(list) ==
  \A i, j \in DOMAIN list :
    computeSegStart(list[i]) = computeSegStart(list[j]) => i = j

C14_DebouncedWriteBack ==
  /\ [](session.pc = "open" =>
          /\ Cardinality(session.timers) <= 1
          /\ session.saves <= 1)
  /\ [][ session.pc = "open" =>
           /\ (session'.handles > session.handles =>
                 /\ session'.timers = {session'.autosaveTimer}
                 /\ session'.autosaveTimer \notin session.timers
                 /\ session'.saves = 0)
           /\ (session'.saves > session.saves =>
                 /\ session.timers = {session.autosaveTimer}
                 /\ session'.timers = {}
                 /\ session'.state = session.state
                 /\ hasItem(session'.localStorage, BookId)
                 /\ loadBook(session'.localStorage, BookId)
                      = bookData(session))
     ]_vars
  /\ (session.pc = "open" /\ session.timers # {})
       ~> (session.saves = 1 \/ session.handles = 0)

\* A burst of two scheduling calls was followed by its single save, and the
\* stored lists are the ones after the second call.
C14_Witness ==
  /\ session.pc = "open"
  /\ session.handles = 2
  /\ session.saves = 1
  /\ session.timers = {}
  /\ hasItem(session.localStorage, BookId)
  /\ loadBook(session.localStorage, BookId).segments = session.state.segments
  /\ Len(session.state.segments) >= 2

\* C15: after saveBook and a load in a fresh page, the id the next divider
\* of each type receives differs from the id of every loaded divider, so the
\* ids of each list stay pairwise distinct.
C15_IdsFreshAfterReload ==
  session.pc = "open" =>
    /\ newSegmentId(session.state) \notin IdsOf(session.state.segments)
    /\ newSectionId(session.state) \notin IdsOf(session.state.sections)
    /\ newDivisionId(session.state) \notin IdsOf(session.state.divisions)
    /\ UniqueIds(session.state.segments)
    /\ UniqueIds(session.state.sections)
    /\ UniqueIds(session.state.divisions)

\* The trimmed texts typed into the cells rendered from item j of a kind.
TypedFor(kind, j) ==
  {Trim(preview.dom[kind][k].text) :
     k \in {c \in DOMAIN preview.dom[kind] :
              /\ preview.dom[kind][c].item = j
              /\ preview.dom[kind][c].text # preview.shown[kind][c].text}}

\* C18: a sync from the preview changes exactly the edited items: an item
\* whose cell was edited gets the typed title, every other title of the main
\* app stays as it was shown, and the structure is untouched.
C18_SyncUpdatesEditedItemsOnly ==
  preview.pc = "applied" =>
    LET atOpen == AppOf(preview.app.state)
    IN /\ \A kind \in Kinds : \A j \in DOMAIN preview.app.titles[kind] :
            IF TypedFor(kind, j) = {}
            THEN preview.app.titles[kind][j] = atOpen.titles[kind][j]
            ELSE preview.app.titles[kind][j] \in TypedFor(kind, j)
       /\ preview.app.keyVerse = Trim(preview.dom.keyVerse)

\* What one creation call may do to a list: at most two dividers more, every
\* divider that was there still there, and the new ones anchored at the
\* requested index or at index 0.
GrowsByCascade(old, new, parIndex) ==
  /\ Len(new) - Len(old) \in 0 .. 2
  /\ \A i \in DOMAIN old :
       /\ i \in DOMAIN new
       /\ new[i].id = old[i].id
       /\ new[i].paragraphIndexes = old[i].paragraphIndexes
  /\ \A i \in DOMAIN new \ DOMAIN old : AnchorSet(new[i]) \subseteq {parIndex, 0}

C26_LinksFollowAnchors ==
  /\ \A x \in Range(state.sections) : \A d \in Range(state.divisions) :
       x.divisionId = d.id => AnchorSet(x) \cap AnchorSet(d) # {}
  /\ \A g \in Range(state.segments) : \A x \in Range(state.sections) :
       g.sectionId = x.id => AnchorSet(g) \cap AnchorSet(x) # {}

\* C27: every non-null sectionId of a segment is the id of a section of
\* state.sections, and every non-null divisionId of a section is the id of
\* a division of state.divisions.
C27_NoDanglingLinks ==
  /\ \A g \in Range(state.segments) :
       g.sectionId # Null => HasId(state.sections, g.sectionId)
  /\ \A x \in Range(state.sections) :
       x.divisionId # Null => HasId(state.divisions, x.divisionId)

\* C21: for every pair of in-range indexes with startIdx <= endIdx and every
\* assignment of range strings, the chart editor's humanRangeFromIdx and the
\* Word export's humanRangeFromIdx return the same range string.
C21_ChartAndWordLabelsAgree ==
  ( /\ resolver.pc = "ranges"
    /\ resolver.chartLabel # NoLabel
    /\ resolver.wordLabel # NoLabel
    /\ BothDefined
    /\ resolver.startIdx <= resolver.endIdx )
  => resolver.chartLabel = resolver.wordLabel

\* One row per segment of the rendered aggregate, in ascending start order.
OneRowPerSegment(rows) ==
  /\ Len(rows) = Len(preview.state.segments)
  /\ {rows[r].seg : r \in DOMAIN rows} =
       {preview.state.segments[i].id : i \in DOMAIN preview.state.segments}
  /\ \A r \in DOMAIN rows : r > 1 => rows[r - 1].segStart <= rows[r].segStart

\* begins[r] says whether row r begins a span of the column holding values:
\* the first row does, a later row does exactly when its value differs from
\* the row above; so every row lies in the span of the nearest beginning row
\* at or above it, all of whose rows carry one value.
SpanRule(begins, values) ==
  /\ \A r \in DOMAIN values :
       begins[r] <=> (r = 1 \/ values[r] # values[r - 1])
  /\ \A r \in DOMAIN values :
       \E b \in 1 .. r :
         /\ begins[b]
         /\ \A q \in (b + 1) .. r : ~begins[q]
         /\ \A q \in b .. r : values[q] = values[b]

\* The rows whose emitted cell (of the given rowspan, 0 for none) reaches
\* row r.
CoveringCells(rowspans, r) ==
  {b \in 1 .. r : rowspans[b] > 0 /\ b + rowspans[b] - 1 >= r}

\* C22: in every renderer's overview grid there is exactly one row per
\* segment in ascending start order; the first row begins a Division and a
\* Section span, a later row begins one exactly when its value differs from
\* the row above and continues the span above otherwise; every row is covered
\* by exactly one span per column, a run of consecutive rows of equal value.
C22_OverviewSpanRule ==
  preview.pc = "layout" =>
    /\ "exportWord" \in preview.built =>
         LET rows == preview.overviewTable
         IN /\ OneRowPerSegment(rows)
            /\ SpanRule([r \in DOMAIN rows |-> rows[r].div = "restart"],
                        [r \in DOMAIN rows |-> rows[r].divValue])
            /\ SpanRule([r \in DOMAIN rows |-> rows[r].sec = "restart"],
                        [r \in DOMAIN rows |-> rows[r].secValue])
    /\ "wordExport" \in preview.built =>
         LET rows == preview.wordMerges
         IN /\ OneRowPerSegment(rows)
            /\ SpanRule([r \in DOMAIN rows |-> rows[r].div = "restart"],
                        [r \in DOMAIN rows |-> rows[r].divValue])
            /\ SpanRule([r \in DOMAIN rows |-> rows[r].sec = "restart"],
                        [r \in DOMAIN rows |-> rows[r].secValue])
    /\ "chart" \in preview.built =>
         LET rows == preview.rowMeta
             divSpans == [r \in DOMAIN rows |->
                            IF rows[r].isNewDiv THEN rows[r].divRowspan ELSE 0]
             secSpans == [r \in DOMAIN rows |->
                            IF rows[r].isNewSec THEN rows[r].secRowspan ELSE 0]
         IN /\ OneRowPerSegment(rows)
            /\ SpanRule([r \in DOMAIN rows |-> rows[r].isNewDiv],
                        [r \in DOMAIN rows |-> rows[r].divValue])
            /\ SpanRule([r \in DOMAIN rows |-> rows[r].isNewSec],
                        [r \in DOMAIN rows |-> rows[r].secValue])
            /\ \A r \in DOMAIN rows :
                 /\ Cardinality(CoveringCells(divSpans, r)) = 1
                 /\ Cardinality(CoveringCells(secSpans, r)) = 1

\* All three grids are rendered from an aggregate with two segments under
\* one division and two sections: the second row continues the Division span
\* and begins a Section span.
C22_Witness ==
  /\ preview.pc = "layout"
  /\ {"exportWord", "wordExport", "chart"} \subseteq preview.built
  /\ Len(preview.overviewTable) = 2
  /\ preview.overviewTable[2].div = "continue"
  /\ preview.overviewTable[2].sec = "restart"
  /\ preview.wordMerges[2].div = "continue"
  /\ preview.wordMerges[2].sec = "restart"
  /\ preview.rowMeta[1].divRowspan = 2
  /\ preview.rowMeta[2].isNewSec

\* C23: for a segment whose span [segStart, segEnd] lies inside
\* [0, paragraphs.length), buildSegmentPage emits the two header rows and then
\* two rows per paragraph of the span in ascending order, a header row and a
\* writing-space row; in both side columns only the first paragraph's header
\* row carries merge "restart", every other paragraph row "continue".
C23_SegmentPageRows ==
  (preview.pc = "layout" /\ "exportWord" \in preview.built) =>
    \A k \in DOMAIN preview.segmentSections :
      LET page == preview.segmentSections[k]
          rows == page.rows
          n == page.segEnd - page.segStart + 1
      IN (0 <= page.segStart /\ page.segStart <= page.segEnd
            /\ page.segEnd < paragraphsLength) =>
           /\ Len(rows) = 2 + 2 * n
           /\ rows[1].kind = "title"
           /\ rows[2].kind = "range"
           /\ \A j \in 1 .. n :
                /\ rows[2 * j + 1].kind = "header"
                /\ rows[2 * j + 1].paragraph = page.segStart + j - 1
                /\ rows[2 * j + 2].kind = "writing"
                /\ rows[2 * j + 2].paragraph = page.segStart + j - 1
           /\ \A q \in 3 .. Len(rows) :
                /\ rows[q].left = (IF q = 3 THEN "restart" ELSE "continue")
                /\ rows[q].right = (IF q = 3 THEN "restart" ELSE "continue")

\* A page was built for a segment spanning more than one paragraph: its
\* second paragraph's header row continues the merge of both side columns.
C23_Witness ==
  /\ preview.pc = "layout"
  /\ "exportWord" \in preview.built
  /\ \E k \in DOMAIN preview.segmentSections :
       LET page == preview.segmentSections[k]
       IN /\ page.segStart = 0
          /\ page.segEnd >= 1
          /\ page.segEnd < paragraphsLength
          /\ Len(page.rows) >= 6
          /\ page.rows[3].left = "restart"
          /\ page.rows[5].kind = "header"
          /\ page.rows[5].right = "continue"

\* C29: the overview table of the HTML export is rectangular: every body row
\* is covered by exactly one Division cell and one Section cell, emitted in
\* that row or reaching it by the rowspan of an earlier row; segments without
\* a section link included.
C29_HtmlOverviewIsRectangular ==
  (preview.pc = "layout" /\ "exportHTML" \in preview.built) =>
    LET rows == preview.tableHTML
        divSpans == [r \in DOMAIN rows |-> rows[r].divRowspan]
        secSpans == [r \in DOMAIN rows |-> rows[r].secRowspan]
    IN \A r \in DOMAIN rows :
         /\ Cardinality(CoveringCells(divSpans, r)) = 1
         /\ Cardinality(CoveringCells(secSpans, r)) = 1

\* C28: in the position-derived overview grid, whenever a segment row begins
\* a new Division span it also begins a new Section span.
C28_DivisionSpanBeginsSectionSpan ==
  (preview.pc = "layout" /\ "exportWord" \in preview.built
     /\ "chart" \in preview.built) =>
    /\ \A r \in DOMAIN preview.overviewTable :
         preview.overviewTable[r].div = "restart"
           => preview.overviewTable[r].sec = "restart"
    /\ \A r \in DOMAIN preview.rowMeta :
         preview.rowMeta[r].isNewDiv => preview.rowMeta[r].isNewSec

\* C24: a public structural call that changes the aggregate calls
\* scheduleAutosave exactly once, after all its state changes; and when the
\* timeout it set fires with no scheduleAutosave in between and a bookId set,
\* saveBook runs and stores exactly the divider lists held in memory at that
\* moment.  A pending timeout leads to that save unless it is replaced or
\* the page is left first.
C24_ChangeSchedulesOneSave ==
  /\ [][ (session.pc = "open" /\ session'.edits > session.edits
            /\ session'.state # session.state) =>
           /\ session'.scheduled = <<session'.state>>
           /\ session'.timers = {session'.autosaveTimer}
           /\ session'.handles = session.handles + 1
     ]_vars
  /\ [][ (session.pc = "open" /\ session'.saves > session.saves
            /\ session.bookId # NoBookId) =>
           /\ session'.state = session.state
           /\ hasItem(session'.localStorage, session.bookId)
           /\ loadBook(session'.localStorage, session.bookId).divisions
                = session.state.divisions
           /\ loadBook(session'.localStorage, session.bookId).sections
                = session.state.sections
           /\ loadBook(session'.localStorage, session.bookId).segments
                = session.state.segments
     ]_vars
  /\ \A h \in 1 .. MaxEdits :
       (session.pc = "open" /\ session.autosaveTimer = h
          /\ h \in session.timers /\ session.bookId # NoBookId)
         ~> (\/ session.saves = 1 /\ session.autosaveTimer = h
             \/ session.handles > h
             \/ session.handles = 0)

\* A cascading add changed the aggregate and scheduled its one save, and the
\* timeout has fired: the stored lists are the lists in memory.
C24_Witness ==
  /\ session.pc = "open"
  /\ session.edits = 1
  /\ Len(session.state.segments) = 2
  /\ session.scheduled = <<session.state>>
  /\ session.saves = 1
  /\ session.timers = {}
  /\ hasItem(session.localStorage, BookId)
  /\ loadBook(session.localStorage, BookId).segments = session.state.segments
  /\ loadBook(session.localStorage, BookId).sections = session.state.sections

\* C30: no update is lost between the builder page and the chart editor
\* working on one bookId: a save by the chart editor, which edits titles and
\* notes and never the divider lists, leaves in storage every divider list
\* the builder page has persisted.
C30_NoLostUpdate ==
  [][ (preview.pc = "chart" /\ preview'.saves > preview.saves
         /\ hasItem(session.localStorage, BookId)) =>
        /\ hasItem(session'.localStorage, BookId)
        /\ loadBook(session'.localStorage, BookId)
             = loadBook(session.localStorage, BookId)
    ]_vars

====
